---- MODULE Spec2Model ----
(***************************************************************************)
(* adsb-rust-dataset: the SBS-1 decoder (src/src/parse.rs) and the batching *)
(* loop that feeds the DataSet sink (src/src/main.rs).                      *)
(*                                                                          *)
(* Text is a TLA+ string; Option<T> is a sequence of length 0 (None) or 1   *)
(* (Some(v)); Vec / VecDeque are sequences.                                 *)
(***************************************************************************)
EXTENDS Integers, Sequences, FiniteSets, TLC

VARIABLES
    batch_size,   \* main.rs:74   configured BATCH_SIZE (usize)
    pc,           \* position of main: "lines" (85), "send" (93), "rest" (100), "send_rest" (101), "returned"
    messages,     \* main.rs:82   the VecDeque<SBS1Message> of pending messages
    batch,        \* main.rs:121  the Vec<SBS1Message> owned by send_to_service while it runs
    result,       \* return value of main: "running", "Ok" or "Err"
    input,        \* history: the items reader.lines() has yielded so far
    sink,         \* history: the delivery attempts the web service has seen
    rests,        \* history: how many times main reached the check at line 100
    msg,          \* parse.rs:183 the argument of a stand-alone call of parse
    now,          \* parse.rs:37  the wall clock that call reads
    called,       \* whether that call has been made
    ret           \* parse.rs:183 what that call returned

vars == <<batch_size, pc, messages, batch, result, input, sink, rests, msg, now, called, ret>>

pipeline == <<batch_size, pc, messages, batch, result, input, sink, rests>>

decoder == <<msg, now, called, ret>>

----------------------------------------------------------------------------
(* Option<T> *)

None == <<>>

Some(v) == <<v>>

is_some(o) == Len(o) = 1

unwrap(o) == o[1]

----------------------------------------------------------------------------
(* Text primitives of the standard library used by parse.rs *)

Char(s, i) == SubSeq(s, i, i)

\* char::is_whitespace, restricted to the ASCII white space
WhiteSpace == {" ", "\t", "\n", "\r"}

Digits == "0123456789"

is_digit(c) == \E d \in 1..10 : Char(Digits, d) = c

to_digit(c) == (CHOOSE d \in 1..10 : Char(Digits, d) = c) - 1

RECURSIVE trim_start(_)
trim_start(s) ==
    IF Len(s) > 0 /\ Char(s, 1) \in WhiteSpace
    THEN trim_start(SubSeq(s, 2, Len(s)))
    ELSE s

RECURSIVE trim_end(_)
trim_end(s) ==
    IF Len(s) > 0 /\ Char(s, Len(s)) \in WhiteSpace
    THEN trim_end(SubSeq(s, 1, Len(s) - 1))
    ELSE s

\* str::trim
trim(s) == trim_end(trim_start(s))

\* position of the first occurrence of character c in s, 0 when there is none
find(s, c) ==
    LET at == {i \in 1..Len(s) : Char(s, i) = c}
    IN  IF at = {} THEN 0 ELSE CHOOSE i \in at : \A j \in at : i <= j

\* str::split(',').collect(): empty fields are kept, "" gives one empty field
RECURSIVE split(_)
split(s) ==
    LET k == find(s, ",")
    IN  IF k = 0
        THEN <<s>>
        ELSE <<SubSeq(s, 1, k - 1)>> \o split(SubSeq(s, k + 1, Len(s)))

\* slice::get with the source's 0-based index
get(parts, i) == IF i < Len(parts) THEN Some(parts[i + 1]) ELSE None

\* str::to_lowercase on the letters that matter to f32::from_str
lower(c) ==
    CASE c = "I" -> "i" [] c = "N" -> "n" [] c = "F" -> "f" [] c = "T" -> "t"
      [] c = "Y" -> "y" [] c = "A" -> "a" [] c = "E" -> "e" [] OTHER -> c

RECURSIVE to_lowercase(_)
to_lowercase(s) ==
    IF Len(s) = 0 THEN "" ELSE lower(Char(s, 1)) \o to_lowercase(SubSeq(s, 2, Len(s)))

all_digits(s) == \A i \in 1..Len(s) : is_digit(Char(s, i))

I32_MAX == 2147483647

I32_MIN == (-2147483647) - 1

\* the digit loop of i32::from_str: checked_mul(10) then checked_add / checked_sub
RECURSIVE accumulate(_, _, _)
accumulate(s, acc, negative) ==
    IF Len(s) = 0 THEN Some(acc)
    ELSE LET x == to_digit(Char(s, 1))
         IN  IF negative
             THEN IF acc < -214748364 \/ acc * 10 < I32_MIN + x
                  THEN None
                  ELSE accumulate(SubSeq(s, 2, Len(s)), acc * 10 - x, negative)
             ELSE IF acc > 214748364 \/ acc * 10 > I32_MAX - x
                  THEN None
                  ELSE accumulate(SubSeq(s, 2, Len(s)), acc * 10 + x, negative)

\* i32::from_str(s).ok(): [+-]? digit+ within the range of i32
i32_from_str(s) ==
    LET signed == Len(s) > 0 /\ Char(s, 1) \in {"+", "-"}
        digits == IF signed THEN SubSeq(s, 2, Len(s)) ELSE s
    IN  IF Len(digits) = 0 \/ ~all_digits(digits)
        THEN None
        ELSE accumulate(digits, 0, signed /\ Char(s, 1) = "-")

----------------------------------------------------------------------------
(* f32::from_str.  An f32 is kept as the decimal it was read from, in the    *)
(* normal form mant * 10^exp with no trailing zero in mant, so that "180.0"  *)
(* and "180" are the same value; more than nine significant digits are cut,  *)
(* since an f32 holds fewer.                                                 *)

RECURSIVE strip_zeros(_)
strip_zeros(s) ==
    IF Len(s) > 0 /\ Char(s, 1) = "0" THEN strip_zeros(SubSeq(s, 2, Len(s))) ELSE s

\* the value of at most nine decimal digits
RECURSIVE nat(_)
nat(s) ==
    IF Len(s) = 0 THEN 0
    ELSE nat(SubSeq(s, 1, Len(s) - 1)) * 10 + to_digit(Char(s, Len(s)))

RECURSIVE normal(_, _)
normal(mant, exp) ==
    IF mant = 0 THEN <<0, 0>>
    ELSE IF mant % 10 = 0 THEN normal(mant \div 10, exp + 1)
    ELSE <<mant, exp>>

finite(neg, mant, exp) ==
    LET n == normal(mant, exp)
    IN  [class |-> "finite", neg |-> neg, mant |-> n[1], exp |-> n[2]]

infinite(neg) == [class |-> "inf", neg |-> neg, mant |-> 0, exp |-> 0]

NaN == [class |-> "nan", neg |-> FALSE, mant |-> 0, exp |-> 0]

\* [+-]? digit+ of an exponent, as Some(value); None when it is not one
exponent(x) ==
    LET signed == Len(x) > 0 /\ Char(x, 1) \in {"+", "-"}
        digits == IF signed THEN SubSeq(x, 2, Len(x)) ELSE x
        sig    == strip_zeros(digits)
        v      == IF Len(sig) > 4 THEN 10000 ELSE nat(sig)
    IN  IF Len(digits) = 0 \/ ~all_digits(digits) THEN None
        ELSE Some(IF signed /\ Char(x, 1) = "-" THEN -v ELSE v)

\* digit* [. digit*] [(e|E) [+-]? digit+], with a digit in the mantissa
decimal(body, neg) ==
    LET es   == {i \in 1..Len(body) : Char(body, i) \in {"e", "E"}}
        e    == IF es = {} THEN 0 ELSE CHOOSE i \in es : \A j \in es : i <= j
        m    == IF e = 0 THEN body ELSE SubSeq(body, 1, e - 1)
        x    == IF e = 0 THEN None ELSE exponent(SubSeq(body, e + 1, Len(body)))
        dot  == find(m, ".")
        ip   == IF dot = 0 THEN m ELSE SubSeq(m, 1, dot - 1)
        fp   == IF dot = 0 THEN "" ELSE SubSeq(m, dot + 1, Len(m))
        sig  == strip_zeros(ip \o fp)
        cut  == IF Len(sig) > 9 THEN Len(sig) - 9 ELSE 0
        mant == nat(SubSeq(sig, 1, Len(sig) - cut))
        exp  == (IF e = 0 THEN 0 ELSE unwrap(x)) - Len(fp) + cut
        order == Len(sig) - cut + exp
    IN  IF ~all_digits(ip) \/ ~all_digits(fp) \/ Len(ip) + Len(fp) = 0 THEN None
        ELSE IF e # 0 /\ ~is_some(x) THEN None
        ELSE IF mant # 0 /\ order > 39 THEN Some(infinite(neg))
        ELSE IF mant # 0 /\ order < -45 THEN Some(finite(neg, 0, 0))
        ELSE Some(finite(neg, mant, exp))

\* f32::from_str(s).ok()
f32_from_str(s) ==
    LET signed == Len(s) > 0 /\ Char(s, 1) \in {"+", "-"}
        neg    == signed /\ Char(s, 1) = "-"
        body   == IF signed THEN SubSeq(s, 2, Len(s)) ELSE s
        low    == to_lowercase(body)
    IN  IF low \in {"inf", "infinity"} THEN Some(infinite(neg))
        ELSE IF low = "nan" THEN Some(NaN)
        ELSE decimal(body, neg)

----------------------------------------------------------------------------
(* chrono's NaiveDateTime::parse_from_str with "%Y/%m/%d %H:%M:%S": a number *)
(* item skips leading white space and takes its digits greedily up to its    *)
(* width, the blank of the format matches any run of white space.            *)

\* how many of the first `max` characters of s are digits
leading_digits(s, max) ==
    LET ns == {n \in 0..Len(s) : n <= max /\ all_digits(SubSeq(s, 1, n))}
    IN  CHOOSE n \in ns : \A k \in ns : k <= n

\* scan::number(s, 1, max) after s.trim_start(): <<value, rest>> or None
number(s0, max) ==
    LET s == trim_start(s0)
        n == leading_digits(s, max)
    IN  IF n = 0 \/ Len(strip_zeros(SubSeq(s, 1, n))) > 9 THEN None
        ELSE Some(<<nat(strip_zeros(SubSeq(s, 1, n))), SubSeq(s, n + 1, Len(s))>>)

\* the %Y item: an explicit sign lifts the width of four digits
year_item(s0) ==
    LET s == trim_start(s0)
    IN  IF Len(s) > 0 /\ Char(s, 1) = "-"
        THEN LET r == number(SubSeq(s, 2, Len(s)), Len(s))
             IN  IF is_some(r) /\ Len(s) > 1 /\ is_digit(Char(s, 2))
                 THEN Some(<<-unwrap(r)[1], unwrap(r)[2]>>) ELSE None
        ELSE IF Len(s) > 0 /\ Char(s, 1) = "+"
        THEN IF Len(s) > 1 /\ is_digit(Char(s, 2))
             THEN number(SubSeq(s, 2, Len(s)), Len(s)) ELSE None
        ELSE number(s, 4)

is_leap_year(y) == y % 4 = 0 /\ (y % 100 # 0 \/ y % 400 = 0)

days_in_month(y, m) ==
    IF m = 2 THEN (IF is_leap_year(y) THEN 29 ELSE 28)
    ELSE IF m \in {4, 6, 9, 11} THEN 30 ELSE 31

MAX_YEAR == 262143

\* Parsed::to_naive_datetime_with_offset: the calendar and clock ranges of the
\* scanned <<year, month, day, hour, minute, second>>
to_naive_datetime(v) ==
    IF /\ v[1] >= -MAX_YEAR /\ v[1] <= MAX_YEAR
       /\ v[2] >= 1 /\ v[2] <= 12
       /\ v[3] >= 1 /\ v[3] <= days_in_month(v[1], v[2])
       /\ v[4] <= 23 /\ v[5] <= 59 /\ v[6] <= 60
    THEN Some([year |-> v[1], month |-> v[2], day |-> v[3],
               hour |-> v[4], minute |-> v[5], second |-> v[6]])
    ELSE None

\* the items of "%Y/%m/%d %H:%M:%S"
Format == <<"Y", "/", "m", "/", "d", " ", "H", ":", "M", ":", "S">>

\* format::parse: the items in turn against what is left of the text; the
\* numbers scanned so far, or None on a mismatch or on text left over
RECURSIVE scan(_, _, _)
scan(items, s, parsed) ==
    IF items = <<>> THEN (IF s = "" THEN Some(parsed) ELSE None)
    ELSE IF Head(items) = " " THEN scan(Tail(items), trim_start(s), parsed)
    ELSE IF Head(items) \in {"/", ":"}
    THEN IF Len(s) > 0 /\ Char(s, 1) = Head(items)
         THEN scan(Tail(items), SubSeq(s, 2, Len(s)), parsed)
         ELSE None
    ELSE LET r == IF Head(items) = "Y" THEN year_item(s) ELSE number(s, 2)
         IN  IF is_some(r)
             THEN scan(Tail(items), unwrap(r)[2], Append(parsed, unwrap(r)[1]))
             ELSE None

parse_from_str(combined) ==
    LET p == scan(Format, combined, <<>>)
    IN  IF is_some(p) THEN to_naive_datetime(unwrap(p)) ELSE None

----------------------------------------------------------------------------
(* src/src/parse.rs *)

\* SBS1Message::new(): the clock reading as timestamp, every other field None
new(clock) ==
    [timestamp |-> clock,
     message_type |-> None, transmission_type |-> None, session_id |-> None,
     aircraft_id |-> None, icao24 |-> None, flight_id |-> None,
     generated_date |-> None, logged_date |-> None, callsign |-> None,
     altitude |-> None, ground_speed |-> None, track |-> None, lat |-> None,
     lon |-> None, vertical_rate |-> None, squawk |-> None, alert |-> None,
     emergency |-> None, spi |-> None, on_ground |-> None]

\* mutant of parse_string: an empty field is taken for a missing one
parse_string_non_empty(opt) ==
    IF is_some(opt) /\ unwrap(opt) # "" THEN Some(unwrap(opt)) ELSE None

\* opt.map(|&s| s.to_string())
parse_string(opt) == IF is_some(opt) THEN Some(unwrap(opt)) ELSE None

\* mutant of parse_bool: only 1 is true
parse_bool_only_one(opt) ==
    IF is_some(opt) /\ is_some(i32_from_str(unwrap(opt)))
    THEN Some(unwrap(i32_from_str(unwrap(opt))) = 1)
    ELSE None

\* opt.and_then(|s| i32::from_str(s).ok().map(|num| num != 0))
parse_bool(opt) ==
    IF is_some(opt) /\ is_some(i32_from_str(unwrap(opt)))
    THEN Some(unwrap(i32_from_str(unwrap(opt))) # 0)
    ELSE None

\* opt.and_then(|&s| i32::from_str(s).ok())
parse_int(opt) == IF is_some(opt) THEN i32_from_str(unwrap(opt)) ELSE None

\* opt.and_then(|&s| f32::from_str(s).ok())
parse_float(opt) == IF is_some(opt) THEN f32_from_str(unwrap(opt)) ELSE None

parse_date_time(opt_date, opt_time) ==
    IF is_some(opt_date) /\ is_some(opt_time)
    THEN parse_from_str(unwrap(opt_date) \o " " \o unwrap(opt_time))
    ELSE None

\* the callsign arm of parse, lines 197-201
callsign_of(parts) ==
    IF Len(parts) > 10 /\ parts[11] # ""
    THEN Some(trim(parts[11]))
    ELSE None

\* mutant of is_msg: any record kind that starts with MSG
is_msg_prefix(first) == Len(first) >= 3 /\ SubSeq(first, 1, 3) = "MSG"

\* what parts.first() is matched against
is_msg(first) == first = "MSG"

\* the Some(&"MSG") arm of parse, lines 189-212
decode(parts, clock) ==
              [new(clock) EXCEPT
                 !.message_type      = Some("MSG"),
                 !.transmission_type = parse_int(get(parts, 1)),
                 !.session_id        = parse_string(get(parts, 2)),
                 !.aircraft_id       = parse_string(get(parts, 3)),
                 !.icao24            = parse_string(get(parts, 4)),
                 !.flight_id         = parse_string(get(parts, 5)),
                 !.generated_date    = parse_date_time(get(parts, 6), get(parts, 7)),
                 !.logged_date       = parse_date_time(get(parts, 8), get(parts, 9)),
                 !.callsign          = callsign_of(parts),
                 !.altitude          = parse_int(get(parts, 11)),
                 !.ground_speed      = parse_float(get(parts, 12)),
                 !.track             = parse_float(get(parts, 13)),
                 !.lat               = parse_float(get(parts, 14)),
                 !.lon               = parse_float(get(parts, 15)),
                 !.vertical_rate     = parse_int(get(parts, 16)),
                 !.squawk            = parse_int(get(parts, 17)),
                 !.alert             = parse_bool(get(parts, 18)),
                 !.emergency         = parse_bool(get(parts, 19)),
                 !.spi               = parse_bool(get(parts, 20)),
                 !.on_ground         = parse_bool(get(parts, 21))]

\* mutant of parse: a transmission type that does not coerce rejects the record
parse_or_reject(line, clock) ==
    LET parts == split(trim(line))
    IN  IF is_msg(parts[1]) /\ is_some(parse_int(get(parts, 1)))
        THEN Some(decode(parts, clock))
        ELSE None

\* mutant of parse: the first field is not looked at
parse_never_rejects(line, clock) == Some(decode(split(trim(line)), clock))

parse(line, clock) ==
    LET parts == split(trim(line))
    IN  IF is_msg(parts[1]) THEN Some(decode(parts, clock)) ELSE None

----------------------------------------------------------------------------
(* src/src/main.rs: the loop of main over reader.lines() and send_to_service *)

DEFAULT_BATCH_SIZE == 500

MaxBatch == 3

MaxLines == 4

MaxClock == 1

Clock == 1..MaxClock

\* the text lines the TCP stream delivers to the pipeline
Lines == {"MSG,1,,,A1B2C3", "MSG,3,,,4CA2D1", "SEL,1,,,A1B2C3"}

Ok(line, clock) == [ok |-> TRUE, line |-> line, at |-> clock]

Err == [ok |-> FALSE, line |-> "", at |-> 0]

\* mutant of push_back: the new message goes to the front
push_front(queue, parsed) == <<parsed>> \o queue

\* line 89: messages.push_back(parsed)
push_back(queue, parsed) == Append(queue, parsed)

\* mutant of at_threshold: only a queue of just the batch size is sent
at_exact_threshold(queue, size) == Len(queue) = size

\* mutant of at_threshold: one message too late
over_threshold(queue, size) == Len(queue) > size

\* line 92: messages.len() >= batch_size
at_threshold(queue, size) == Len(queue) >= size

\* mutant of is_empty: the check before the last send is lost
never_empty(queue) == FALSE

\* line 100: messages.is_empty()
is_empty(queue) == queue = <<>>

\* mutant of after_send: the loop is entered again after the last send
back_to_loop(at) == "lines"

\* where main goes on after send_to_service returned Ok: back to the loop
\* (line 93), or to Ok(()) (line 104)
after_send(at) == IF at = "send" THEN "lines" ELSE "returned"

\* mutant of drain: the batch is a copy and the queue keeps its messages
clone_all(queue) == queue

\* lines 93 and 101: what messages.drain(..) leaves in the queue
drain(queue) == <<>>

\* mutant of await_send: the delivery is started and the loop goes on
spawn_send == "lines"

\* line 93: main is suspended at .await until send_to_service has returned
await_send == "send"

\* mutant of on_error: the error of a delivery is dropped and main goes on
ignore_error(at) == IF at = "send" THEN "lines" ELSE "returned"

\* lines 93 and 101: `?` returns the error of send_to_service from main
on_error(at) == "returned"

Init ==
    /\ batch_size \in 0..MaxBatch
    /\ pc = "lines"
    /\ messages = <<>>
    /\ batch = <<>>
    /\ result = "running"
    /\ input = <<>>
    /\ sink = <<>>
    /\ rests = 0
    /\ msg = ""
    /\ now = 0
    /\ called = FALSE
    /\ ret = None

\* lines 86-95: reader.lines() yields Ok(line); parse, push_back, and at the
\* threshold drain the queue into the Vec handed to send_to_service
NextLine ==
    /\ pc = "lines"
    /\ Len(input) < MaxLines
    /\ \E line \in Lines, clock \in Clock :
          LET parsed == parse(line, clock)
              pushed == push_back(messages, unwrap(parsed))
          IN  /\ input' = Append(input, Ok(line, clock))
              /\ IF is_some(parsed)
                 THEN IF at_threshold(pushed, batch_size)
                      THEN /\ batch' = pushed
                           /\ messages' = drain(pushed)
                           /\ pc' = await_send
                      ELSE /\ messages' = pushed
                           /\ UNCHANGED <<batch, pc>>
                 ELSE UNCHANGED <<messages, batch, pc>>
    /\ UNCHANGED <<batch_size, result, sink, rests, decoder>>

\* line 86: reader.lines() yields Err(e); `if let Ok(msg) = line` skips the item
ReadError ==
    /\ pc = "lines"
    /\ Len(input) < MaxLines
    /\ input' = Append(input, Err)
    /\ UNCHANGED <<batch_size, pc, messages, batch, result, sink, rests, decoder>>

\* line 97: reader.lines() yields None and the for loop ends
EndOfStream ==
    /\ pc = "lines"
    /\ pc' = "rest"
    /\ rests' = rests + 1
    /\ UNCHANGED <<batch_size, messages, batch, result, input, sink, decoder>>

\* lines 100-104: send what is left, if anything is
Rest ==
    /\ pc = "rest"
    /\ IF ~is_empty(messages)
       THEN /\ batch' = messages
            /\ messages' = drain(messages)
            /\ pc' = "send_rest"
            /\ UNCHANGED result
       ELSE /\ pc' = "returned"
            /\ result' = "Ok"
            /\ UNCHANGED <<messages, batch>>
    /\ UNCHANGED <<batch_size, input, sink, rests, decoder>>

\* send_to_service returns Ok(()): its Vec is gone, main goes on
SendOk ==
    /\ pc \in {"send", "send_rest"}
    /\ sink' = Append(sink, [batch |-> batch, at |-> pc, ok |-> TRUE])
    /\ batch' = <<>>
    /\ pc' = after_send(pc)
    /\ result' = IF after_send(pc) = "returned" THEN "Ok" ELSE result
    /\ UNCHANGED <<batch_size, messages, input, rests, decoder>>

\* send_to_service returns Err(e): its Vec is gone, `?` returns the error from main
SendErr ==
    /\ pc \in {"send", "send_rest"}
    /\ sink' = Append(sink, [batch |-> batch, at |-> pc, ok |-> FALSE])
    /\ batch' = <<>>
    /\ pc' = on_error(pc)
    /\ result' = "Err"
    /\ UNCHANGED <<batch_size, messages, input, rests, decoder>>

Next == NextLine \/ ReadError \/ EndOfStream \/ Rest \/ SendOk \/ SendErr

Spec == Init /\ [][Next]_vars

----------------------------------------------------------------------------
(* The decoder on its own: one call of parse on a line drawn from a bounded  *)
(* set of records built around the sample record of the tests.               *)

\* sample_msg3_position, field by field
Base ==
    <<"MSG", "3", "1", "1", "A1B2C3", "1", "2024/01/15", "12:30:45", "2024/01/15",
      "12:30:45", "UAL123", "35000", "450.5", "180.0", "40.7128", "-74.0060", "0",
      "1200", "0", "0", "0", "0">>

\* a MSG record with every other field empty
Blank == [i \in 1..22 |-> IF i = 1 THEN "MSG" ELSE ""]

MaxExtra == 1

MaxPad == 1

RECURSIVE join(_)
join(fields) ==
    IF Len(fields) = 0 THEN ""
    ELSE IF Len(fields) = 1 THEN fields[1]
    ELSE fields[1] \o "," \o join(Tail(fields))

\* the first n fields, fields past the 22nd being "9"
cut(fields, n) == [i \in 1..n |-> IF i <= Len(fields) THEN fields[i] ELSE "9"]

FirstTokens ==
    {"", "SEL", "ID", "AIR", "STA", "CLK", "msg", "Msg", "MSGX", "XMSG", "MS", "MSG ", "M SG", "MSG\t", "MSG.", "3"}

IntTokens == {"", "0", "8", "-500", "+7", "007", "abc", "1.5", " 1", "1 ", "2147483647", "2147483648", "-"}

FloatTokens == {"", "100", "-33.8688", "5.", ".5", "1e3", "nan", "-inf", ".", "x", "1,5", " 1.0", "1.2.3"}

BoolTokens ==
    {"", "1", "5", "-1", "+0", "-0", "00", "true", "false", "1.0", " 1", "0x1",
     "2147483647", "2147483648", "-2147483648", "-2147483649"}

DateTokens == {"", "2024-01-15", "15-01-2024", "2024/02/30", "2024/02/29", "2023/02/29", "2024/1/5", "20240115", "2024/01/15 "}

TimeTokens == {"", "25:00:00", "12:30", "1:2:3", "23:59:60", "12:60:00", "12.30.45", "12:30:45Z"}

StringTokens == {"", " ", "a1b2c3", "FFFFFF", " x "}

CallsignTokens == {"", " ", "   ", "\t", "UAL123  ", " UAL123", "UAL 123", "DAL456"}

\* the texts tried at the source's 0-based position i
TokensAt(i) ==
    IF i = 0 THEN FirstTokens
    ELSE IF i \in {1, 11, 16, 17} THEN IntTokens
    ELSE IF i \in 2..5 THEN StringTokens
    ELSE IF i \in {6, 8} THEN DateTokens
    ELSE IF i \in {7, 9} THEN TimeTokens
    ELSE IF i = 10 THEN CallsignTokens
    ELSE IF i \in 12..15 THEN FloatTokens
    ELSE BoolTokens

\* the sample record and the blank one cut to every length, the sample with one
\* field replaced, cut right after that field, one field later, and not at all
Records ==
    {join(cut(Base, n)) : n \in 1..(22 + MaxExtra)}
    \cup {join(cut(Blank, n)) : n \in 1..(22 + MaxExtra)}
    \cup UNION {{join(cut([Base EXCEPT ![i + 1] = t], n)) : n \in {i + 1, i + 2, 22 + MaxExtra}}
                : <<i, t>> \in UNION {{<<j, u>> : u \in TokensAt(j)} : j \in 0..21}}
    \cup {join([[Blank EXCEPT ![i + 1] = Base[i + 1]] EXCEPT ![11] = "  "]) : i \in 11..21}

\* white space of at most n characters
RECURSIVE Blanks(_)
Blanks(n) ==
    IF n = 0 THEN {""}
    ELSE Blanks(n - 1) \cup {w \o c : w \in Blanks(n - 1), c \in WhiteSpace}

Padded ==
    {l \o body \o r : l \in Blanks(MaxPad), r \in Blanks(MaxPad),
                      body \in {"", "MSG", "SEL,1", "MSG,8,,,,,,,,, ", join(Base)}}

ParseInputs == Records \cup Padded

ParseInit ==
    /\ batch_size = DEFAULT_BATCH_SIZE
    /\ pc = "lines"
    /\ messages = <<>>
    /\ batch = <<>>
    /\ result = "running"
    /\ input = <<>>
    /\ sink = <<>>
    /\ rests = 0
    /\ msg \in ParseInputs
    /\ now \in Clock
    /\ called = FALSE
    /\ ret = None

\* let parsed = parse(&msg)
CallParse ==
    /\ ~called
    /\ called' = TRUE
    /\ ret' = parse(msg, now)
    /\ UNCHANGED <<msg, now, pipeline>>

ParseNext == CallParse

ParseSpec == ParseInit /\ [][ParseNext]_vars

----------------------------------------------------------------------------
(* Claims about the pipeline, checked under Spec *)

\* the messages the decoder accepted among the items read, in arrival order
RECURSIVE Accepted(_)
Accepted(items) ==
    IF items = <<>> THEN <<>>
    ELSE LET last == items[Len(items)]
             rest == Accepted(SubSeq(items, 1, Len(items) - 1))
             done == parse(last.line, last.at)
         IN  IF last.ok /\ is_some(done) THEN Append(rest, unwrap(done)) ELSE rest

\* the batches of the delivery attempts, one after the other
RECURSIVE Flatten(_)
Flatten(attempts) ==
    IF attempts = <<>> THEN <<>>
    ELSE Flatten(SubSeq(attempts, 1, Len(attempts) - 1)) \o attempts[Len(attempts)].batch

NoReadError == \A k \in 1..Len(input) : input[k].ok

AllDelivered == \A k \in 1..Len(sink) : sink[k].ok

Sizes == [k \in 1..Len(sink) |-> Len(sink[k].batch)]

\* C1: without a read error and with every delivery succeeding, the batches
\* handed to the sink, the one being handed over and the pending buffer make up
\* the accepted messages in arrival order, and once main has returned the
\* delivered batches alone do.
C1_BatchesAreTheAcceptedMessages ==
    (NoReadError /\ AllDelivered) =>
        /\ Flatten(sink) \o batch \o messages = Accepted(input)
        /\ pc = "returned" => Flatten(sink) = Accepted(input)

\* three accepted messages, not all alike, and a rejected line in two batches
C1_Witness ==
    /\ pc = "returned" /\ NoReadError /\ AllDelivered
    /\ batch_size = 2
    /\ Len(input) = 4 /\ Len(Accepted(input)) = 3
    /\ Len(sink) = 2
    /\ Accepted(input)[1] # Accepted(input)[2]

\* C2: with a batch size B >= 1 no batch is larger than B and every batch sent
\* from the loop has exactly B messages; 2B accepted messages make two batches
\* of B from the loop and none after it, B+1 make a batch of B and one of 1.
C2_BatchSizes ==
    batch_size >= 1 =>
        /\ \A k \in 1..Len(sink) :
              /\ Len(sink[k].batch) <= batch_size
              /\ sink[k].at = "send" => Len(sink[k].batch) = batch_size
        /\ pc = "send" => Len(batch) = batch_size
        /\ pc = "send_rest" => Len(batch) <= batch_size
        /\ (pc = "returned" /\ AllDelivered /\ Len(Accepted(input)) = 2 * batch_size) =>
              /\ Sizes = <<batch_size, batch_size>>
              /\ \A k \in 1..Len(sink) : sink[k].at = "send"
        /\ (pc = "returned" /\ AllDelivered /\ Len(Accepted(input)) = batch_size + 1) =>
              Sizes = <<batch_size, 1>>

C2_Witness ==
    /\ pc = "returned" /\ AllDelivered
    /\ batch_size = 2
    /\ Len(Accepted(input)) = 3
    /\ Sizes = <<2, 1>>
    /\ sink[1].at = "send" /\ sink[2].at = "send_rest"

\* C3: the send after the loop never carries an empty batch: with an empty
\* buffer main returns without a delivery, otherwise the whole buffer, and
\* nothing else, is what the sink then sees.
C3_NoEmptyFinalBatch ==
    /\ [](/\ \A k \in 1..Len(sink) : sink[k].at = "send_rest" => sink[k].batch # <<>>
          /\ pc = "send_rest" => (batch # <<>> /\ messages = <<>>))
    /\ [][pc = "rest" =>
            IF messages = <<>>
            THEN pc' = "returned" /\ sink' = sink /\ batch' = batch
            ELSE pc' = "send_rest" /\ sink' = sink /\ batch' = messages]_vars
    /\ [][pc = "send_rest" =>
            /\ Len(sink') = Len(sink) + 1
            /\ sink'[Len(sink')].batch = batch
            /\ sink'[Len(sink')].at = "send_rest"]_vars

C3_Witness ==
    /\ pc = "returned" /\ result = "Ok"
    /\ batch_size = 3
    /\ Len(sink) = 1
    /\ sink[1].at = "send_rest" /\ Len(sink[1].batch) = 2

\* C4: the check after the loop is reached at most once, only when the line
\* source has ended, and no line is read after it; a send after the loop is the
\* last delivery; from there main can always go on, and when every delivery
\* succeeded it has returned Ok having made that check exactly once.
C4_OneFinalFlush ==
    /\ [](/\ rests <= 1
          /\ pc \in {"rest", "send_rest"} => rests = 1
          /\ \A k \in 1..Len(sink) : sink[k].at = "send_rest" => (k = Len(sink) /\ rests = 1)
          /\ (rests = 1 /\ pc # "returned") => ENABLED (Rest \/ SendOk \/ SendErr)
          /\ (pc = "returned" /\ AllDelivered) =>
                (rests = 1 /\ result = "Ok" /\ messages = <<>> /\ batch = <<>>))
    /\ [][rests = 1 => (input' = input /\ rests' = 1 /\ pc' # "lines")]_vars
    /\ [][rests' # rests => (pc = "lines" /\ pc' = "rest")]_vars

C4_Witness ==
    /\ pc = "returned" /\ result = "Ok" /\ rests = 1
    /\ Len(input) = 3
    /\ Len(sink) = 2
    /\ sink[2].at = "send_rest"

\* C5 as stated: a read error is the last item consumed and main returns it.
C5_ReadErrorIsFatal ==
    (~NoReadError) =>
        /\ \A k \in 1..Len(input) : ~input[k].ok => k = Len(input)
        /\ pc = "returned" => result = "Err"

\* C6 as stated: after a failed delivery the batch is still held, unchanged, by
\* the pipeline for a retry.
C6_FailedBatchRetained ==
    (sink # <<>> /\ ~sink[Len(sink)].ok) =>
        (batch = sink[Len(sink)].batch \/ messages = sink[Len(sink)].batch)

----------------------------------------------------------------------------
(* Claims about the decoder, checked under ParseSpec *)

\* the text before the first comma of the trimmed line
FirstField(line) ==
    LET t == trim(line)
        k == find(t, ",")
    IN  IF k = 0 THEN t ELSE SubSeq(t, 1, k - 1)

\* the fields of the line the call was made on
Parts == split(trim(msg))

\* the text at 0-based position i; only used where the position exists
Field(i) == Parts[i + 1]

Missing(i) == i >= Len(Parts)

\* C7: a line whose first comma-separated field (of the trimmed line, section
\* 4.1 steps 1-3) is not the literal MSG is rejected, whatever follows it.
C7_NonMsgRejected ==
    (called /\ FirstField(msg) # "MSG") => ret = None

C7_Witness ==
    /\ called /\ ret = None
    /\ FirstField(msg) = "MSGX"
    /\ Len(Parts) = 22 + MaxExtra

\* each decoded field with the positions it is read from and its coercion
Targets ==
    <<[f |-> "transmission_type", pos |-> <<1>>, kind |-> "int"],
      [f |-> "session_id", pos |-> <<2>>, kind |-> "string"],
      [f |-> "aircraft_id", pos |-> <<3>>, kind |-> "string"],
      [f |-> "icao24", pos |-> <<4>>, kind |-> "string"],
      [f |-> "flight_id", pos |-> <<5>>, kind |-> "string"],
      [f |-> "generated_date", pos |-> <<6, 7>>, kind |-> "date"],
      [f |-> "logged_date", pos |-> <<8, 9>>, kind |-> "date"],
      [f |-> "callsign", pos |-> <<10>>, kind |-> "callsign"],
      [f |-> "altitude", pos |-> <<11>>, kind |-> "int"],
      [f |-> "ground_speed", pos |-> <<12>>, kind |-> "float"],
      [f |-> "track", pos |-> <<13>>, kind |-> "float"],
      [f |-> "lat", pos |-> <<14>>, kind |-> "float"],
      [f |-> "lon", pos |-> <<15>>, kind |-> "float"],
      [f |-> "vertical_rate", pos |-> <<16>>, kind |-> "int"],
      [f |-> "squawk", pos |-> <<17>>, kind |-> "int"],
      [f |-> "alert", pos |-> <<18>>, kind |-> "bool"],
      [f |-> "emergency", pos |-> <<19>>, kind |-> "bool"],
      [f |-> "spi", pos |-> <<20>>, kind |-> "bool"],
      [f |-> "on_ground", pos |-> <<21>>, kind |-> "bool"]>>

\* a position of the target is beyond the end of the record
Beyond(t) == \E k \in 1..Len(t.pos) : Missing(t.pos[k])

\* the target's text is there but empty (typed fields, callsign) or does not coerce
Unusable(t) ==
    /\ ~Beyond(t)
    /\ CASE t.kind \in {"int", "bool"} -> i32_from_str(Field(t.pos[1])) = None
         [] t.kind = "float" -> f32_from_str(Field(t.pos[1])) = None
         [] t.kind = "date" ->
                parse_from_str(Field(t.pos[1]) \o " " \o Field(t.pos[2])) = None
         [] t.kind = "callsign" -> Field(t.pos[1]) = ""
         [] OTHER -> FALSE

\* the line with the positions of target t holding the sample record's text
Repaired(t) ==
    join([i \in 1..Len(Parts) |->
            IF \E k \in 1..Len(t.pos) : t.pos[k] + 1 = i THEN Base[i] ELSE Parts[i]])

\* C8: once field 0 is MSG the record is never rejected and carries
\* message_type "MSG"; a target that is missing, empty or does not coerce is
\* absent, and every other target is what it is when that one is well-formed.
C8_MsgNeverRejected ==
    (called /\ FirstField(msg) = "MSG") =>
        /\ is_some(ret)
        /\ unwrap(ret).message_type = Some("MSG")
        /\ \A g \in 1..Len(Targets) :
              /\ (Beyond(Targets[g]) \/ Unusable(Targets[g])) => unwrap(ret)[Targets[g].f] = None
              /\ Unusable(Targets[g]) =>
                    LET fixed == parse(Repaired(Targets[g]), now)
                    IN  /\ is_some(fixed)
                        /\ unwrap(fixed)[Targets[g].f] # None
                        /\ \A h \in 1..Len(Targets) :
                              h # g => unwrap(ret)[Targets[h].f] = unwrap(fixed)[Targets[h].f]

\* a full record whose altitude does not coerce, the fields around it decoded
C8_Witness ==
    /\ called /\ is_some(ret)
    /\ Len(Parts) = 22 + MaxExtra
    /\ Field(11) = "abc"
    /\ unwrap(ret).altitude = None
    /\ unwrap(ret).callsign = Some("UAL123")
    /\ unwrap(ret).ground_speed # None
    /\ unwrap(ret).on_ground = Some(FALSE)

\* C9 as stated: the callsign is the trimmed text of field 10 when that is
\* present and non-empty after trimming, and absent otherwise.
C9_CallsignTrimmedOrAbsent ==
    (called /\ is_some(ret)) =>
        unwrap(ret).callsign =
            IF ~Missing(10) /\ trim(Field(10)) # "" THEN Some(trim(Field(10))) ELSE None

\* [+-]? digit+
IsIntegerText(s) ==
    LET digits == IF Len(s) > 0 /\ Char(s, 1) \in {"+", "-"} THEN SubSeq(s, 2, Len(s)) ELSE s
    IN  Len(digits) > 0 /\ all_digits(digits)

\* the digits of an integer text without sign and leading zeros
Magnitude(s) ==
    strip_zeros(IF Char(s, 1) \in {"+", "-"} THEN SubSeq(s, 2, Len(s)) ELSE s)

\* a <= b for digit strings of one length
RECURSIVE DigitsLeq(_, _)
DigitsLeq(a, b) ==
    IF Len(a) = 0 THEN TRUE
    ELSE IF Char(a, 1) # Char(b, 1) THEN to_digit(Char(a, 1)) < to_digit(Char(b, 1))
    ELSE DigitsLeq(SubSeq(a, 2, Len(a)), SubSeq(b, 2, Len(b)))

\* text of an integer of 32 bits: -2147483648 .. 2147483647
IsI32Text(s) ==
    /\ IsIntegerText(s)
    /\ \/ Len(Magnitude(s)) < 10
       \/ /\ Len(Magnitude(s)) = 10
          /\ DigitsLeq(Magnitude(s), IF Char(s, 1) = "-" THEN "2147483648" ELSE "2147483647")

\* C10: for the flags at positions 18..21 a missing field or text that is not
\* an integer gives absent, integer text of value 0 gives false and any other
\* integer text, of either sign, gives true.
C10_BoolCoercion ==
    (called /\ is_some(ret)) =>
        \A g \in 16..19 :
            unwrap(ret)[Targets[g].f] =
                IF Missing(Targets[g].pos[1]) \/ ~IsI32Text(Field(Targets[g].pos[1]))
                THEN None
                ELSE Some(Magnitude(Field(Targets[g].pos[1])) # "")

C10_Witness ==
    /\ called /\ is_some(ret)
    /\ ~Missing(21)
    /\ Field(19) = "-1" /\ unwrap(ret).emergency = Some(TRUE)
    /\ unwrap(ret).alert = Some(FALSE)

\* C11: session_id, aircraft_id, icao24 and flight_id (positions 2..5) are
\* absent exactly when the position is beyond the end of the record; when the
\* position exists the decoded value is the field's text as it stands, so an
\* empty field gives a present empty string and letter case is kept.
C11_VerbatimFields ==
    (called /\ is_some(ret)) =>
        \A g \in 2..5 :
            unwrap(ret)[Targets[g].f] =
                IF Missing(Targets[g].pos[1])
                THEN None
                ELSE Some(Field(Targets[g].pos[1]))

C11_Witness ==
    /\ called /\ is_some(ret)
    /\ ~Missing(3)
    /\ Field(2) = "" /\ unwrap(ret).session_id = Some("")
    /\ Field(3) # "" /\ unwrap(ret).aircraft_id = Some(Field(3))
    /\ Missing(4) /\ unwrap(ret).icao24 = None /\ unwrap(ret).flight_id = None

----------------------------------------------------------------------------
(* Claims about the order of reading and delivering, checked under Spec *)

\* C12: while a delivery is outstanding no line is consumed and the pending
\* buffer does not change: the only step is the outcome of that delivery, so
\* deliveries never overlap and the batches reach the sink one at a time, in
\* the order the messages were accepted.
C12_NoReadWhileDelivering ==
    /\ [](/\ batch # <<>> <=> pc \in {"send", "send_rest"}
          /\ Flatten(sink) \o batch \o messages = Accepted(input))
    /\ [][batch # <<>> =>
            /\ input' = input /\ messages' = messages /\ rests' = rests
            /\ batch' = <<>>
            /\ Len(sink') = Len(sink) + 1
            /\ SubSeq(sink', 1, Len(sink)) = sink
            /\ sink'[Len(sink')].batch = batch]_vars
    /\ [][sink' # sink => batch # <<>>]_vars

\* a second delivery is outstanding after two lines more were read
C12_Witness ==
    /\ pc = "send" /\ batch_size = 2
    /\ Len(sink) = 1 /\ sink[1].ok
    /\ Len(batch) = 2 /\ batch # sink[1].batch
    /\ Len(input) = 4

\* C13: a line the decoder rejects (one whose first field is not MSG) is
\* dropped without a trace: the buffer is as it was, nothing is handed to the
\* sink or put out for delivery, main has not returned and is back at the
\* loop for the next line.
C13_RejectedLineDiscarded ==
    /\ [](\A k \in 1..Len(input) :
            input[k].ok =>
                (parse(input[k].line, input[k].at) = None
                    <=> FirstField(input[k].line) # "MSG"))
    /\ [][(/\ Len(input') = Len(input) + 1
           /\ input'[Len(input')].ok
           /\ FirstField(input'[Len(input')].line) # "MSG") =>
            /\ messages' = messages /\ batch' = batch /\ sink' = sink
            /\ rests' = rests
            /\ pc' = "lines" /\ result' = "running"]_vars

\* a rejected line was read with a message pending
C13_Witness ==
    /\ pc = "lines" /\ result = "running"
    /\ Len(input) = 2
    /\ input[2].ok /\ FirstField(input[2].line) = "SEL"
    /\ parse(input[2].line, input[2].at) = None
    /\ batch_size = 2 /\ Len(messages) = 1 /\ sink = <<>>

\* C14: with a batch size B >= 1 the buffer holds fewer than B messages
\* whenever main is about to read a line or makes the check after the loop; it
\* is empty while a delivery is outstanding and right after every delivery
\* attempt, failed or not, so nothing that was handed over stays in it.
C14_BufferBelowThreshold ==
    /\ [](batch_size >= 1 =>
            /\ pc \in {"lines", "rest"} => Len(messages) < batch_size
            /\ pc \in {"send", "send_rest"} => messages = <<>>)
    /\ [][(batch_size >= 1 /\ Len(sink') > Len(sink)) => messages' = <<>>]_vars
    /\ [][(batch_size >= 1 /\ batch' # batch /\ batch' # <<>>) => messages' = <<>>]_vars

\* one batch went out at the threshold and one message is left at the check
\* after the loop
C14_Witness ==
    /\ pc = "rest" /\ batch_size = 2
    /\ Len(sink) = 1 /\ Len(sink[1].batch) = 2
    /\ Len(messages) = 1

\* C15: a delivery made at the threshold that fails ends main at once with
\* the error: it is the last delivery attempt, main has returned Err, the
\* check after the loop was never reached, and from then on no line is read
\* and nothing more is handed to the sink, the failed batch included.
C15_FailedDeliveryIsFatal ==
    /\ [](\A k \in 1..Len(sink) :
            (sink[k].at = "send" /\ ~sink[k].ok) =>
                /\ k = Len(sink)
                /\ pc = "returned" /\ result = "Err"
                /\ rests = 0
                /\ batch = <<>>)
    /\ [][(sink # <<>> /\ sink[Len(sink)].at = "send" /\ ~sink[Len(sink)].ok) =>
            /\ input' = input /\ sink' = sink /\ rests' = rests
            /\ batch' = batch /\ messages' = messages
            /\ pc' = "returned" /\ result' = "Err"]_vars

\* the second threshold delivery failed while the line source could still
\* give lines
C15_Witness ==
    /\ pc = "returned" /\ result = "Err"
    /\ batch_size = 1
    /\ Len(sink) = 2 /\ sink[1].ok
    /\ sink[2].at = "send" /\ ~sink[2].ok
    /\ Len(input) = 2 /\ rests = 0

\* C16: a batch size of 0 is taken as it is: main runs, every accepted
\* message goes out on its own, as a batch of one, in the step that decoded
\* it, the buffer never holds anything, and the check after the loop finds
\* nothing to deliver.
C16_ZeroBatchSize ==
    /\ [](batch_size = 0 =>
            /\ messages = <<>>
            /\ pc # "send_rest"
            /\ pc = "send" => Len(batch) = 1
            /\ \A k \in 1..Len(sink) :
                  Len(sink[k].batch) = 1 /\ sink[k].at = "send")
    /\ [][(/\ batch_size = 0
           /\ Len(input') = Len(input) + 1
           /\ input'[Len(input')].ok
           /\ FirstField(input'[Len(input')].line) = "MSG") =>
            /\ pc' = "send"
            /\ batch' = <<unwrap(parse(input'[Len(input')].line, input'[Len(input')].at))>>]_vars
    /\ [][(batch_size = 0 /\ pc = "rest") =>
            (pc' = "returned" /\ result' = "Ok" /\ sink' = sink /\ batch' = <<>>)]_vars

\* two accepted messages and a rejected line with batch size 0, to the end
C16_Witness ==
    /\ batch_size = 0
    /\ pc = "returned" /\ result = "Ok" /\ rests = 1
    /\ Len(input) = 3 /\ Len(Accepted(input)) = 2
    /\ Len(sink) = 2 /\ AllDelivered
    /\ Flatten(sink) = Accepted(input)

====
